---- MODULE Spec2Model ----
(***************************************************************************)
(* Model of the InstaAgent reel pipeline: the ReelsWorkflow orchestrator   *)
(* (orchestrator/workflow.py), the StateManager store                      *)
(* (orchestrator/state_manager.py) and the result contracts of the four    *)
(* agents it calls (agents/*.py).                                          *)
(*                                                                         *)
(* A caller is one coroutine running start_workflow or continue_workflow.  *)
(* A step of a caller runs from one await on an agent to the next one, so  *)
(* every step contains the synchronous tail of a node (the assignments to  *)
(* the state dict), the _save_state_node call that follows it, and the     *)
(* synchronous head of the next node.                                      *)
(*                                                                         *)
(* Environment: the state directory is writable, so save_state does not    *)
(* raise and the except branch of _save_state_node is not taken.           *)
(***************************************************************************)
EXTENDS Integers, Sequences, FiniteSets, TLC

(* ------------------------------ bounds --------------------------------- *)
\* most dict items a text response carries that validate as a ReelConcept
MaxValid == 4
\* most items of a response that are skipped as invalid
MaxInvalid == 1
\* most segments of a generated script
MaxSeg == 2
\* selection indexes tried by callers: -(MaxIndex+1) .. MaxIndex
MaxIndex == 1
\* most operations (start_workflow, continue_workflow) issued in one run
MaxCalls == 3
\* most operations issued in a run that is followed to its end
MaxFairCalls == 2

\* most prompts of a batch whose completion orders are all explored
MaxBatch == 3
\* digits of the zero-padded image number: f"{prefix}_{i+1:02d}.png"
PadWidth == 2

\* largest max_requests and time_window (in clock ticks, one per second) of
\* the limiter configs tried
MaxRequests == 2
MaxWindow == 2
\* most acquire() calls issued in one run, and the last clock reading
MaxAcquires == 4
MaxTime == 4
\* clock readings per second that the timestamps tell apart, the last clock
\* reading of the state directory, and the most save_state calls of a writer
TicksPerSecond == 2
MaxStamp == 2
MaxPuts == 2
\* characters of "YYYY-MM-DDTHH:MM:SS" and of ".ffffff"
SecondsChars == 19
MicrosChars == 7

\* stop_after_attempt(3)
MaxAttemptNumber == 3
\* wait_exponential(multiplier=1, min=2, max=10), in seconds
RetryMultiplier == 1
RetryMin == 2
RetryMax == 10
\* RateLimitConfig(max_requests=60, time_window=60.0) of OpenAIClient
ClientMaxRequests == 60
ClientTimeWindow == 60

Ids == {"w1", "w2"}
\* the ids start_workflow is called with; the other id never names a workflow
StartIds == {"w1"}
Tasks == {"t1", "t2"}
Niches == {"cooking"}
KeywordSet == {""}
Callers == {"a"}
\* the sessions (CLI runs, browser sessions) that share one orchestrator
Sessions == {"a", "b"}
\* the processes that write to the state directory
Writers == {"p1"}
Processes == {"p1", "p2"}
Indexes == (0 - (MaxIndex + 1))..MaxIndex

(* --------------------------- Optional[T] ------------------------------- *)
None == <<>>
Some(x) == <<x>>
\* `saved.field or default`: the falsy values "", [] and {} are the defaults
OrElse(o, d) == IF o = None THEN d ELSE o[1]

\* a Python dict read with .get(key, default)
EmptyDict == <<>>
Get(d, k, def) == IF k \in DOMAIN d THEN d[k] ELSE def

(* ----------------------- the workflow state dict ----------------------- *)
InitialState(id, niche, keywords) ==
    [workflow_id |-> id,
     niche |-> niche,
     keywords |-> keywords,
     concepts |-> <<>>,
     selected_concept_index |-> 0 - 1,
     script |-> EmptyDict,
     image_paths |-> <<>>,
     audio_path |-> "",
     video_path |-> "",
     current_step |-> "concept_generation",
     status |-> "in_progress",
     error_message |-> "",
     output_dir |-> "./output"]

\* the WorkflowState built by _save_state_node from the state dict
WorkflowState(s) ==
    [workflow_id |-> s.workflow_id,
     niche |-> Some(s.niche),
     keywords |-> Some(s.keywords),
     concepts |-> Some(s.concepts),
     selected_concept_index |-> Some(s.selected_concept_index),
     script |-> Some(s.script),
     image_paths |-> Some(s.image_paths),
     audio_path |-> Some(s.audio_path),
     video_path |-> Some(s.video_path),
     current_step |-> s.current_step,
     status |-> s.status,
     error_message |-> Some(s.error_message)]

\* a state dict that starts again without the saved concepts
StateFromSaved_NoConcepts(saved, index) ==
    [workflow_id |-> saved.workflow_id,
     niche |-> OrElse(saved.niche, ""),
     keywords |-> OrElse(saved.keywords, ""),
     concepts |-> <<>>,
     selected_concept_index |-> index,
     script |-> OrElse(saved.script, EmptyDict),
     image_paths |-> OrElse(saved.image_paths, <<>>),
     audio_path |-> OrElse(saved.audio_path, ""),
     video_path |-> OrElse(saved.video_path, ""),
     current_step |-> saved.current_step,
     status |-> saved.status,
     error_message |-> OrElse(saved.error_message, ""),
     output_dir |-> "./output"]

\* the state dict continue_workflow builds from a loaded record
StateFromSaved(saved, index) ==
    [workflow_id |-> saved.workflow_id,
     niche |-> OrElse(saved.niche, ""),
     keywords |-> OrElse(saved.keywords, ""),
     concepts |-> OrElse(saved.concepts, <<>>),
     selected_concept_index |-> index,
     script |-> OrElse(saved.script, EmptyDict),
     image_paths |-> OrElse(saved.image_paths, <<>>),
     audio_path |-> OrElse(saved.audio_path, ""),
     video_path |-> OrElse(saved.video_path, ""),
     current_step |-> saved.current_step,
     status |-> saved.status,
     error_message |-> OrElse(saved.error_message, ""),
     output_dir |-> "./output"]

(* ------------------------------ the store ------------------------------ *)
\* a state file that does not exist
NoFile == [workflow_id |-> "", status |-> "absent"]

VARIABLES store, pc, state, op, log, calls
\* one generate_images call: the number of prompts, the prompts whose request
\* fails, the order in which the tasks complete, the results gather collects,
\* and the outcome of the call
VARIABLES prompts, failing, schedule, results, batch

\* one RateLimiter and the tasks that share it: the clock time.time() reads,
\* the RateLimitConfig, the deque of timestamps, the asyncio.Lock (its holder
\* and its queue of waiters), each task's position in acquire(), the time its
\* sleep ends, and the acquire() calls each task has made
VARIABLES now, config, request_times, lock, waiters, lpc, wake, hist
\* one retry-wrapped client call per task: the attempt number, the position
\* in the retry loop, the attempts made, the end of the backoff, the outcome
VARIABLES attempt, rpc, tries, backoff_until, call_result
\* the state directory as the processes that share it see it: the file of
\* each workflow id, the save_state call of each writer, and what the last
\* load_state, list_workflows or delete_state call returned
VARIABLES files, put, seen

wfVars == <<store, pc, state, op, log, calls>>
fanVars == <<prompts, failing, schedule, results, batch>>
limVars == <<now, config, request_times, lock, waiters, lpc, wake, hist>>
retryVars == <<attempt, rpc, tries, backoff_until, call_result>>
dirVars == <<files, put, seen>>
vars == <<wfVars, fanVars, limVars, retryVars, dirVars>>

\* StateManager.save_state: one file per workflow id, overwritten in full
save_state(st, rec) == [st EXCEPT ![rec.workflow_id] = rec]

\* load_state that hands out a fresh record for an unknown id
load_state_or_new(st, id) ==
    IF st[id] = NoFile THEN Some(WorkflowState(InitialState(id, "", "")))
    ELSE Some(st[id])

\* StateManager.load_state: None when the file does not exist
load_state(st, id) == IF st[id] = NoFile THEN None ELSE Some(st[id])

\* a save node that persists only the states that did not fail
SaveStateNode_SkipsFailed(st, s) ==
    IF s.status = "failed" THEN st ELSE save_state(st, WorkflowState(s))

\* _save_state_node: persist the state dict, return it unchanged
SaveStateNode(st, s) == save_state(st, WorkflowState(s))

(* ------------------- ConceptStrategist.generate_concepts --------------- *)
\* What one generate_text call of the concept strategist yields.
\*   error       the call raised after its retries
\*   array       the cleaned text is a JSON array
\*   array_extra a JSON array followed by more bracketed text: the greedy
\*               \[[\s\S]*\] match is not JSON, the bracket-matched prefix is
\*   scalar      JSON that is not iterable (a number, null, true)
\*   garbage     text with no JSON in it
\* nValid items of an array validate as ReelConcept, nInvalid do not.
ConceptResponses ==
    [kind : {"array", "array_extra"}, nValid : 0..MaxValid, nInvalid : 0..MaxInvalid]
    \cup [kind : {"error", "scalar", "garbage"}, nValid : {0}, nInvalid : {0}]

\* the loop over concepts_data: invalid items are skipped, order is kept
ValidConcepts(r) == [i \in 1..r.nValid |-> i]

\* lines 113-151: "return", or "fallback" when the except clause catches
\* (JSONDecodeError, ValueError, KeyError), or "raise" for anything else
FirstParse(r) ==
    CASE r.kind = "error" -> [tag |-> "raise", concepts |-> <<>>]
      [] r.kind = "scalar" -> [tag |-> "raise", concepts |-> <<>>]
      [] r.kind = "garbage" -> [tag |-> "fallback", concepts |-> <<>>]
      [] r.kind = "array_extra" -> [tag |-> "fallback", concepts |-> <<>>]
      [] r.kind = "array" ->
            IF Len(ValidConcepts(r)) # 3
            THEN [tag |-> "fallback", concepts |-> <<>>]
            ELSE [tag |-> "return", concepts |-> ValidConcepts(r)]

\* lines 162-242: the parse of the re-prompt response
FallbackParse(r) ==
    CASE r.kind = "error" -> [tag |-> "raise", concepts |-> <<>>]
      [] r.kind \in {"scalar", "garbage"} -> [tag |-> "raise", concepts |-> <<>>]
      [] r.kind = "array" ->
            \* lines 188-201 accept exactly 3, lines 204-232 at least 1
            IF Len(ValidConcepts(r)) = 3 \/ Len(ValidConcepts(r)) >= 1
            THEN [tag |-> "return", concepts |-> ValidConcepts(r)]
            ELSE [tag |-> "raise", concepts |-> <<>>]
      [] r.kind = "array_extra" ->
            \* json.loads of the greedy match fails; lines 204-232 parse the prefix
            IF Len(ValidConcepts(r)) >= 1
            THEN [tag |-> "return", concepts |-> ValidConcepts(r)]
            ELSE [tag |-> "raise", concepts |-> <<>>]

\* generate_concepts ends with a list of concepts or with an exception
ConceptResult(parsed, requests) ==
    [raised |-> parsed.tag = "raise", concepts |-> parsed.concepts,
     requests |-> requests]

(* ----------------------- Scriptwriter.generate_script ------------------ *)
\* What one generate_text call of the scriptwriter yields.
\*   error     the call raised after its retries
\*   object    a JSON object whose nSeg segments validate as ScriptSegment
\*   fenced    the same object inside a ```json fence
\*   object_bad a JSON object with a segment that fails validation
\*   nonobject JSON that is not an object (.get raises AttributeError)
\*   garbage   text that is not JSON
ScriptResponses ==
    [kind : {"object", "fenced"}, nSeg : 0..MaxSeg]
    \cup [kind : {"error", "object_bad", "nonobject", "garbage"}, nSeg : {0}]

\* ScriptSegment(**seg) for every segment, then ReelScript(...).model_dump()
ReelScript(concept, n) ==
    [full_transcript |-> concept,
     segments |-> [i \in 1..n |->
                     [segment_number |-> i, image_prompt |-> i,
                      duration_estimate |-> i]]]

\* lines 150-175: "return", or "fallback" when the except clause catches
\* (JSONDecodeError, ValueError, KeyError), or "raise" for anything else
ScriptFirstParse(concept, r) ==
    CASE r.kind \in {"error", "nonobject"} -> [tag |-> "raise", script |-> EmptyDict]
      [] r.kind \in {"garbage", "object_bad"} -> [tag |-> "fallback", script |-> EmptyDict]
      [] r.kind \in {"object", "fenced"} ->
            [tag |-> "return", script |-> ReelScript(concept, r.nSeg)]

\* lines 184-204: no fence is stripped, the text must start with "{"
ScriptFallbackParse(concept, r) ==
    CASE r.kind = "object" -> [tag |-> "return", script |-> ReelScript(concept, r.nSeg)]
      [] OTHER -> [tag |-> "raise", script |-> EmptyDict]

\* generate_script ends with a script or with an exception
ScriptResult(parsed, requests) ==
    [raised |-> parsed.tag = "raise", script |-> parsed.script,
     requests |-> requests]

(* --------------------- MediaGenerator.generate_images ------------------ *)
RECURSIVE DecimalDigits(_)
DecimalDigits(n) ==
    IF n < 10 THEN <<n>> ELSE DecimalDigits(n \div 10) \o <<n % 10>>

RECURSIVE ZeroPad(_)
ZeroPad(d) == IF Len(d) >= PadWidth THEN d ELSE ZeroPad(<<0>> \o d)

\* the digits of f"{i+1:02d}" in the file name of the image of prompt i+1
ImageNumber(i) == ZeroPad(DecimalDigits(i))

\* the order of two paths <dir>/<prefix>_<digits>.png as sorted() compares
\* them: character by character, and "." sorts before every digit
PathLess(a, b) ==
    LET n == IF Len(a) < Len(b) THEN Len(a) ELSE Len(b)
        diff == {k \in 1..n : a[k] # b[k]}
    IN  IF diff # {}
        THEN LET k == CHOOSE x \in diff : \A y \in diff : x <= y
             IN  a[k] < b[k]
        ELSE Len(a) < Len(b)

\* the image numbers the model can meet
MaxImages == IF 10 ^ PadWidth > MaxSeg THEN 10 ^ PadWidth ELSE MaxSeg
\* the number of image paths that sort before the path of image i
PathRank ==
    [i \in 1..MaxImages |->
        Cardinality({j \in 1..MaxImages : PathLess(ImageNumber(j), ImageNumber(i))})]

\* sorted(image_paths): the images, named by their prompt, in path order;
\* the k-th is the one with k - 1 paths before it
SortedSeq(S) ==
    [k \in 1..Cardinality(S) |->
        CHOOSE x \in S : Cardinality({y \in S : PathRank[y] < PathRank[x]}) = k - 1]

\* a batch that raises as soon as one of its requests failed
generate_images_AllOrNothing(image_prompts, okSet) ==
    LET done == {i \in 1..Len(image_prompts) : i \in okSet}
        failed == {i \in 1..Len(image_prompts) : i \notin okSet}
    IN  IF done = {} \/ failed # {}
        THEN [raised |-> TRUE, image_paths |-> <<>>, requests |-> Len(image_prompts),
              failures |-> Cardinality(failed),
              error |-> "Failed to generate any images"]
        ELSE [raised |-> FALSE, image_paths |-> SortedSeq(done),
              requests |-> Len(image_prompts),
              failures |-> Cardinality(failed), error |-> ""]

\* `failures` counts the prompts whose request failed; with no path at all
\* it raises RuntimeError("Failed to generate any images. ...")
generate_images(image_prompts, okSet) ==
    LET done == {i \in 1..Len(image_prompts) : i \in okSet}
        failed == {i \in 1..Len(image_prompts) : i \notin okSet}
    IN  IF done = {}
        THEN [raised |-> TRUE, image_paths |-> <<>>, requests |-> Len(image_prompts),
              failures |-> Cardinality(failed),
              error |-> "Failed to generate any images"]
        ELSE [raised |-> FALSE, image_paths |-> SortedSeq(done),
              requests |-> Len(image_prompts),
              failures |-> Cardinality(failed), error |-> ""]

(* ------------------- VideoAssembler.create_complete_reel --------------- *)
AssemblyOutcomes == {"ok", "speech_error", "render_error"}

create_complete_reel(image_paths, outcome) ==
    IF outcome = "speech_error" THEN [raised |-> TRUE, video_path |-> ""]
    ELSE IF image_paths = <<>> THEN [raised |-> TRUE, video_path |-> ""]
    ELSE IF outcome = "render_error" THEN [raised |-> TRUE, video_path |-> ""]
    ELSE [raised |-> FALSE, video_path |-> "final_reel.mp4"]

(* ---------------- VideoProcessor.create_video_from_images -------------- *)
\* audio_clip.duration of the voice-over, in seconds
AudioDurations == {3, 4}

RECURSIVE SumSeq(_)
SumSeq(q) == IF q = <<>> THEN 0 ELSE q[1] + SumSeq(Tail(q))

\* d * scale_factor as the fraction <<numerator, denominator>>; the
\* durations are left alone when they already sum to the audio duration
Scaled(d, image_durations, total_duration) ==
    IF SumSeq(image_durations) # total_duration
    THEN <<d * total_duration, SumSeq(image_durations)>>
    ELSE <<d, 1>>

\* the clips of the video: zip(image_paths, image_durations) pairs by
\* position and stops at the end of the shorter list
create_video_from_images(image_paths, image_durations, total_duration) ==
    LET n == IF Len(image_paths) < Len(image_durations)
             THEN Len(image_paths) ELSE Len(image_durations)
    IN  [k \in 1..n |->
            [image |-> image_paths[k],
             duration |-> Scaled(image_durations[k], image_durations, total_duration)]]

(* ----------------------- ReelsWorkflow: the nodes ---------------------- *)
\* Python list indexing state["concepts"][i]: negative i counts from the end
InRange(seq, i) == 0 - Len(seq) <= i /\ i < Len(seq)
PyIndex(seq, i) == IF i >= 0 THEN seq[i + 1] ELSE seq[Len(seq) + i + 1]

\* the concept node with an except branch that forgets the status
GenerateConceptsNode_KeepsStatus(s, res) ==
    IF res.raised
    THEN [s EXCEPT !.error_message = "Concept generation failed"]
    ELSE [s EXCEPT !.concepts = res.concepts,
                   !.current_step = "concept_selection",
                   !.status = "waiting_for_selection"]

\* _generate_concepts_node, after generate_concepts returned or raised
GenerateConceptsNode(s, res) ==
    IF res.raised
    THEN [s EXCEPT !.status = "failed",
                   !.error_message = "Concept generation failed"]
    ELSE [s EXCEPT !.concepts = res.concepts,
                   !.current_step = "concept_selection",
                   !.status = "waiting_for_selection"]

\* the except branch of the script node without the error message
ScriptNodeFailed_NoMessage(s) == [s EXCEPT !.status = "failed"]

\* _generate_script_node: the except branch
ScriptNodeFailed(s) ==
    [s EXCEPT !.status = "failed", !.error_message = "Script generation failed"]

\* the script node with an except branch that forgets the status
GenerateScriptNode_KeepsStatus(s, res) ==
    IF res.raised
    THEN [s EXCEPT !.error_message = "Script generation failed"]
    ELSE [s EXCEPT !.script = res.script,
                   !.current_step = "script_generation",
                   !.status = "in_progress"]

\* _generate_script_node, after generate_script returned or raised
GenerateScriptNode(s, res) ==
    IF res.raised
    THEN ScriptNodeFailed(s)
    ELSE [s EXCEPT !.script = res.script,
                   !.current_step = "script_generation",
                   !.status = "in_progress"]

\* _generate_images_node: the prompts read from the script
ImagePrompts(s) ==
    LET segments == Get(s.script, "segments", <<>>)
    IN  [i \in 1..Len(segments) |-> segments[i].image_prompt]

\* f"Image generation failed: {e}" for the exception generate_images raised
ImageErrorMessage(e) ==
    IF e = "Failed to generate any images"
    THEN "Image generation failed: Failed to generate any images"
    ELSE "Image generation failed"

\* the images node with an except branch that forgets the status
GenerateImagesNode_KeepsStatus(s, res) ==
    IF res.raised
    THEN [s EXCEPT !.error_message = ImageErrorMessage(res.error)]
    ELSE [s EXCEPT !.image_paths = res.image_paths,
                   !.current_step = "image_generation",
                   !.status = "in_progress"]

\* _generate_images_node, after generate_images returned or raised
GenerateImagesNode(s, res) ==
    IF res.raised
    THEN [s EXCEPT !.status = "failed",
                   !.error_message = ImageErrorMessage(res.error)]
    ELSE [s EXCEPT !.image_paths = res.image_paths,
                   !.current_step = "image_generation",
                   !.status = "in_progress"]

\* the assembly node with an except branch that forgets the status
AssembleVideoNode_KeepsStatus(s, res) ==
    IF res.raised
    THEN [s EXCEPT !.error_message = "Video assembly failed"]
    ELSE [s EXCEPT !.video_path = res.video_path,
                   !.audio_path = "voiceover.mp3",
                   !.current_step = "video_assembly",
                   !.status = "completed"]

\* the assembly node with an except branch that discards the images
AssembleVideoNode_DropsImages(s, res) ==
    IF res.raised
    THEN [s EXCEPT !.status = "failed",
                   !.error_message = "Video assembly failed",
                   !.image_paths = <<>>]
    ELSE [s EXCEPT !.video_path = res.video_path,
                   !.audio_path = "voiceover.mp3",
                   !.current_step = "video_assembly",
                   !.status = "completed"]

\* the assembly node without the update of current_step
AssembleVideoNode_KeepsStep(s, res) ==
    IF res.raised
    THEN [s EXCEPT !.status = "failed",
                   !.error_message = "Video assembly failed"]
    ELSE [s EXCEPT !.video_path = res.video_path,
                   !.audio_path = "voiceover.mp3",
                   !.status = "completed"]

\* _assemble_video_node, after create_complete_reel returned or raised
AssembleVideoNode(s, res) ==
    IF res.raised
    THEN [s EXCEPT !.status = "failed",
                   !.error_message = "Video assembly failed"]
    ELSE [s EXCEPT !.video_path = res.video_path,
                   !.audio_path = "voiceover.mp3",
                   !.current_step = "video_assembly",
                   !.status = "completed"]

\* _assemble_video_node: the durations handed to create_complete_reel, one
\* for every segment of the script
ImageDurations(s) ==
    LET segments == Get(s.script, "segments", <<>>)
    IN  [i \in 1..Len(segments) |-> segments[i].duration_estimate]

(* ---------------------- ReelsWorkflow: the operations ------------------ *)
\* the state dict of a caller that runs no operation
NoState == InitialState("", "", "")
NoOp == [name |-> "none", workflow_id |-> "", index |-> 0]

Invoked(agent, res) ==
    [agent |-> agent, raised |-> res.raised, requests |-> res.requests]

\* the call of generate_images as the history records it
InvokedBatch(agent, res) ==
    [agent |-> agent, raised |-> res.raised, requests |-> res.requests,
     failures |-> res.failures]

\* no generate_images call is followed on its own
NoBatch == [pc |-> "idle", image_paths |-> <<>>]
FanOutIdle ==
    /\ prompts = 0
    /\ failing = {}
    /\ schedule = <<>>
    /\ results = <<>>
    /\ batch = NoBatch

\* no limiter is followed: no task uses one
NoConfig == [max_requests |-> 1, time_window |-> 1]
LimiterIdle ==
    /\ now = 0
    /\ config = NoConfig
    /\ request_times = <<>>
    /\ lock = "free"
    /\ waiters = <<>>
    /\ lpc = <<>>
    /\ wake = <<>>
    /\ hist = <<>>

\* no client call is followed
RetryIdle ==
    /\ attempt = <<>>
    /\ rpc = <<>>
    /\ tries = <<>>
    /\ backoff_until = <<>>
    /\ call_result = <<>>

\* no state directory is followed file by file
DirIdle ==
    /\ files = <<>>
    /\ put = <<>>
    /\ seen = <<>>

\* no workflow exists and no caller runs an operation
WorkflowIdle ==
    /\ store = [id \in Ids |-> NoFile]
    /\ pc = [c \in Callers |-> "idle"]
    /\ state = [c \in Callers |-> NoState]
    /\ op = [c \in Callers |-> NoOp]
    /\ log = [c \in Callers |-> <<>>]
    /\ calls = 0

Init ==
    /\ WorkflowIdle
    /\ FanOutIdle
    /\ LimiterIdle
    /\ RetryIdle
    /\ DirIdle

\* start_workflow up to the await on generate_concepts
StartWorkflow(c, id, niche, keywords) ==
    /\ pc[c] = "idle"
    /\ calls < MaxCalls
    /\ calls' = calls + 1
    /\ pc' = [pc EXCEPT ![c] = "generate_concepts"]
    /\ state' = [state EXCEPT ![c] = InitialState(id, niche, keywords)]
    /\ op' = [op EXCEPT ![c] = [name |-> "start", workflow_id |-> id, index |-> 0]]
    /\ log' = [log EXCEPT ![c] = <<>>]
    /\ UNCHANGED store

\* the concept node after a generate_text call returned: either the agent
\* re-prompts, or generate_concepts -> save_state -> END and start returns
ConceptsDone(c, res) ==
    LET s1 == GenerateConceptsNode(state[c], res)
    IN  /\ state' = [state EXCEPT ![c] = s1]
        /\ store' = SaveStateNode(store, s1)
        /\ log' = [log EXCEPT ![c] = Append(@, Invoked("concept_strategist", res))]
        /\ pc' = [pc EXCEPT ![c] = "returned"]

GenerateConcepts(c, r) ==
    /\ pc[c] = "generate_concepts"
    /\ IF FirstParse(r).tag = "fallback"
       THEN /\ pc' = [pc EXCEPT ![c] = "generate_concepts_fallback"]
            /\ UNCHANGED <<store, state, log>>
       ELSE ConceptsDone(c, ConceptResult(FirstParse(r), 1))
    /\ UNCHANGED <<op, calls>>

\* the re-prompt of generate_concepts returned
GenerateConceptsFallback(c, r) ==
    /\ pc[c] = "generate_concepts_fallback"
    /\ ConceptsDone(c, ConceptResult(FallbackParse(r), 2))
    /\ UNCHANGED <<op, calls>>

\* continue_workflow up to the await on generate_script
ContinueWorkflow(c, id, index) ==
    /\ pc[c] = "idle"
    /\ calls < MaxCalls
    /\ calls' = calls + 1
    /\ op' = [op EXCEPT ![c] = [name |-> "select", workflow_id |-> id, index |-> index]]
    /\ log' = [log EXCEPT ![c] = <<>>]
    /\ LET saved_state == load_state(store, id)
           s0 == StateFromSaved(saved_state[1], index)
           s1 == ScriptNodeFailed(s0)
       IN  IF saved_state = None
           THEN \* raise ValueError("Workflow ... not found")
                /\ pc' = [pc EXCEPT ![c] = "raised"]
                /\ UNCHANGED <<store, state>>
           ELSE IF ~InRange(s0.concepts, index)
           THEN \* IndexError inside the try of _generate_script_node
                /\ state' = [state EXCEPT ![c] = s1]
                /\ store' = SaveStateNode(store, s1)
                /\ pc' = [pc EXCEPT ![c] = "returned"]
           ELSE /\ state' = [state EXCEPT ![c] = s0]
                /\ pc' = [pc EXCEPT ![c] = "generate_script"]
                /\ UNCHANGED store

SelectedConcept(s) == PyIndex(s.concepts, s.selected_concept_index)

\* the script node completes, its state is saved, the images node starts
ScriptDone(c, res) ==
    LET s1 == GenerateScriptNode(state[c], res)
    IN  /\ state' = [state EXCEPT ![c] = s1]
        /\ store' = SaveStateNode(store, s1)
        /\ log' = [log EXCEPT ![c] = Append(@, Invoked("scriptwriter", res))]
        /\ pc' = [pc EXCEPT ![c] =
                     IF s1.status # "failed" THEN "generate_images" ELSE "returned"]

\* the first generate_text call of generate_script returned
GenerateScript(c, r) ==
    /\ pc[c] = "generate_script"
    /\ LET parsed == ScriptFirstParse(SelectedConcept(state[c]), r)
       IN  IF parsed.tag = "fallback"
           THEN /\ pc' = [pc EXCEPT ![c] = "generate_script_fallback"]
                /\ UNCHANGED <<store, state, log>>
           ELSE ScriptDone(c, ScriptResult(parsed, 1))
    /\ UNCHANGED <<op, calls>>

\* the re-prompt of generate_script returned
GenerateScriptFallback(c, r) ==
    /\ pc[c] = "generate_script_fallback"
    /\ ScriptDone(c, ScriptResult(ScriptFallbackParse(SelectedConcept(state[c]), r), 2))
    /\ UNCHANGED <<op, calls>>

\* the images node completes, its state is saved, the assembly node starts
GenerateImages(c, okSet) ==
    /\ pc[c] = "generate_images"
    /\ LET res == generate_images(ImagePrompts(state[c]), okSet)
           s1 == GenerateImagesNode(state[c], res)
       IN  /\ state' = [state EXCEPT ![c] = s1]
           /\ store' = SaveStateNode(store, s1)
           /\ log' = [log EXCEPT ![c] = Append(@, InvokedBatch("media_generator", res))]
           /\ pc' = [pc EXCEPT ![c] =
                        IF s1.status # "failed" THEN "assemble_video" ELSE "returned"]
    /\ UNCHANGED <<op, calls>>

\* the assembly node completes, its state is saved, continue_workflow returns
AssembleVideo(c, outcome) ==
    /\ pc[c] = "assemble_video"
    /\ LET r == create_complete_reel(state[c].image_paths, outcome)
           res == [raised |-> r.raised, video_path |-> r.video_path, requests |-> 1]
           s1 == AssembleVideoNode(state[c], res)
       IN  /\ state' = [state EXCEPT ![c] = s1]
           /\ store' = SaveStateNode(store, s1)
           /\ log' = [log EXCEPT ![c] = Append(@, Invoked("video_assembler", res))]
    /\ pc' = [pc EXCEPT ![c] = "returned"]
    /\ UNCHANGED <<op, calls>>

\* CLI.resume_workflow: the record is loaded; when it holds concepts and its
\* selected_concept_index is None the user is asked (select_concept repeats
\* the question until 0 <= index < len(concepts)) and continue_workflow runs;
\* otherwise the status is printed and nothing else is done
ResumeWorkflow(c, id, index) ==
    LET saved == load_state(store, id)
    IN  IF /\ saved # None
           /\ OrElse(saved[1].concepts, <<>>) # <<>>
           /\ saved[1].selected_concept_index = None
        THEN /\ 0 <= index /\ index < Len(OrElse(saved[1].concepts, <<>>))
             /\ ContinueWorkflow(c, id, index)
        ELSE /\ pc[c] = "idle"
             /\ calls < MaxCalls
             /\ calls' = calls + 1
             /\ index = 0
             /\ op' = [op EXCEPT ![c] = [name |-> "resume", workflow_id |-> id, index |-> 0]]
             /\ pc' = [pc EXCEPT ![c] = "printed"]
             /\ log' = [log EXCEPT ![c] = <<>>]
             /\ UNCHANGED <<store, state>>

\* the caller takes the result (or the exception) and is free to call again
Finish(c) ==
    /\ pc[c] \in {"returned", "raised", "printed"}
    /\ UNCHANGED calls
    /\ pc' = [pc EXCEPT ![c] = "idle"]
    /\ state' = [state EXCEPT ![c] = NoState]
    /\ op' = [op EXCEPT ![c] = NoOp]
    /\ log' = [log EXCEPT ![c] = <<>>]
    /\ UNCHANGED store

\* a step of the orchestrator leaves the other components alone
Workflow(A) == A /\ UNCHANGED <<fanVars, limVars, retryVars, dirVars>>

Next ==
    \E c \in Callers :
        \/ \E id \in StartIds, niche \in Niches, keywords \in KeywordSet :
              Workflow(StartWorkflow(c, id, niche, keywords))
        \/ \E r \in ConceptResponses : Workflow(GenerateConcepts(c, r))
        \/ \E r \in ConceptResponses : Workflow(GenerateConceptsFallback(c, r))
        \/ \E id \in Ids, index \in Indexes : Workflow(ContinueWorkflow(c, id, index))
        \/ \E id \in Ids, index \in Indexes : Workflow(ResumeWorkflow(c, id, index))
        \/ \E r \in ScriptResponses : Workflow(GenerateScript(c, r))
        \/ \E r \in ScriptResponses : Workflow(GenerateScriptFallback(c, r))
        \/ \E okSet \in SUBSET (1..MaxSeg) : Workflow(GenerateImages(c, okSet))
        \/ \E outcome \in AssemblyOutcomes : Workflow(AssembleVideo(c, outcome))
        \/ Workflow(Finish(c))

Spec == Init /\ [][Next]_vars

\* the collaborator call a select is awaiting returns or raises, and the
\* event loop resumes the node that awaits it
StageStep(c) ==
    \/ \E r \in ScriptResponses : Workflow(GenerateScript(c, r))
    \/ \E r \in ScriptResponses : Workflow(GenerateScriptFallback(c, r))
    \/ \E okSet \in SUBSET (1..MaxSeg) : Workflow(GenerateImages(c, okSet))
    \/ \E outcome \in AssemblyOutcomes : Workflow(AssembleVideo(c, outcome))

\* every collaborator call eventually returns or raises; nothing obliges a
\* caller to start an operation
FairSpec ==
    /\ Init
    /\ [][Next /\ calls' <= MaxFairCalls]_vars
    /\ \A c \in Callers : WF_vars(StageStep(c))

(* ------------- continue_workflow called by several sessions ----------- *)
\* start_workflow has returned three concepts for the id of StartIds, the
\* record waits for a selection, and every session is free to call
ConcurrentInit ==
    /\ FanOutIdle
    /\ LimiterIdle
    /\ RetryIdle
    /\ DirIdle
    /\ store = [id \in Ids |->
                  IF id \in StartIds
                  THEN WorkflowState(GenerateConceptsNode(
                           InitialState(id, "cooking", ""),
                           [raised |-> FALSE, concepts |-> <<1, 2, 3>>]))
                  ELSE NoFile]
    /\ pc = [c \in Sessions |-> "idle"]
    /\ state = [c \in Sessions |-> NoState]
    /\ op = [c \in Sessions |-> NoOp]
    /\ log = [c \in Sessions |-> <<>>]
    /\ calls = 0

\* the coroutines interleave at their awaits: each step is one of Next
ConcurrentNext ==
    \E c \in Sessions :
        \/ \E id \in StartIds, index \in 0..MaxIndex :
              Workflow(ContinueWorkflow(c, id, index))
        \/ \E r \in ScriptResponses : Workflow(GenerateScript(c, r))
        \/ \E r \in ScriptResponses : Workflow(GenerateScriptFallback(c, r))
        \/ \E okSet \in SUBSET (1..MaxSeg) : Workflow(GenerateImages(c, okSet))
        \/ \E outcome \in AssemblyOutcomes : Workflow(AssembleVideo(c, outcome))
        \/ Workflow(Finish(c))

ConcurrentSpec == ConcurrentInit /\ [][ConcurrentNext]_vars

(* ------------- MediaGenerator.generate_images: the fan-out ------------- *)
\* the first image number that needs more digits than PadWidth
UnpaddedFrom == 10 ^ PadWidth
BatchSizes == (0..MaxBatch) \cup {UnpaddedFrom}
\* the orders in which the tasks of one gather may complete: every order for
\* a small batch, the first-to-last and the last-to-first order otherwise
Schedules(n) ==
    IF n <= MaxBatch
    THEN {f \in [1..n -> 1..n] : \A i, j \in 1..n : i # j => f[i] # f[j]}
    ELSE {[i \in 1..n |-> i], [i \in 1..n |-> n + 1 - i]}
Pending(res) == {i \in 1..Len(res) : res[i] = "pending"}

\* generate_images has built one task per prompt and awaits gather
FanOutInit ==
    /\ WorkflowIdle
    /\ LimiterIdle
    /\ RetryIdle
    /\ DirIdle
    /\ prompts \in BatchSizes
    /\ failing \in SUBSET (1..(IF prompts < MaxBatch THEN prompts ELSE MaxBatch))
    /\ schedule \in Schedules(prompts)
    /\ results = [i \in 1..prompts |-> "pending"]
    /\ batch = [pc |-> "gather", image_paths |-> <<>>]

\* the next task to complete: _generate_single_image returns its output path
\* or, having caught the exception of a failed request, None
TaskDone ==
    /\ batch.pc = "gather"
    /\ Pending(results) # {}
    /\ LET i == schedule[prompts - Cardinality(Pending(results)) + 1]
       IN  results' = [results EXCEPT ![i] = IF i \in failing THEN "none" ELSE "path"]
    /\ UNCHANGED <<prompts, failing, schedule, batch>>

\* gather returned the results in task order: the paths are collected, the
\* call raises when there is none and returns them sorted otherwise
Collect ==
    /\ batch.pc = "gather"
    /\ Pending(results) = {}
    /\ LET res == generate_images([i \in 1..prompts |-> i],
                                   {i \in 1..prompts : results[i] = "path"})
       IN  batch' = [pc |-> IF res.raised THEN "raised" ELSE "returned",
                     image_paths |-> res.image_paths]
    /\ UNCHANGED <<prompts, failing, schedule, results>>

\* a step of generate_images leaves the other components alone
FanOut(A) == A /\ UNCHANGED <<wfVars, limVars, retryVars, dirVars>>

FanOutNext == FanOut(TaskDone) \/ FanOut(Collect)

FanOutSpec == FanOutInit /\ [][FanOutNext]_vars

(* ----------------------- RateLimiter.acquire --------------------------- *)
Configs ==
    {[max_requests |-> m, time_window |-> w] : m \in 1..MaxRequests, w \in 1..MaxWindow}

RECURSIVE Evict(_, _, _)
\* while request_times and request_times[0] < now - time_window: popleft()
Evict(times, t, cfg) ==
    IF times # <<>> /\ times[1] < t - cfg.time_window
    THEN Evict(Tail(times), t, cfg)
    ELSE times

\* a sleep of one time_window more
SleepTime_Long(times, t, cfg) == times[1] + 2 * cfg.time_window - t

\* a limit test that lets one request too many through
AtLimit_OffByOne(times, cfg) == Len(times) > cfg.max_requests

\* len(request_times) >= max_requests
AtLimit(times, cfg) == Len(times) >= cfg.max_requests

\* sleep_time = request_times[0] + time_window - now
SleepTime(times, t, cfg) == times[1] + cfg.time_window - t

AcquireCalls == {<<t, i>> \in Tasks \X (1..MaxAcquires + 1) : i <= Len(hist[t])}
NoEnd == 0 - 1
\* the acquire() call of task t in progress returns at the current time
Completed(t) ==
    [hist EXCEPT ![t] = [@ EXCEPT ![Len(@)] = [@ EXCEPT !.end = now]]]

\* task t holds the lock: lines 30-47 up to the sleep, or to the end
Critical(t) ==
    LET kept == Evict(request_times, now, config)
    IN  IF AtLimit(kept, config) /\ SleepTime(kept, now, config) > 0
        THEN /\ request_times' = kept
             /\ lock' = t
             /\ lpc' = [lpc EXCEPT ![t] = "sleeping"]
             /\ wake' = [wake EXCEPT ![t] = now + SleepTime(kept, now, config)]
        ELSE /\ request_times' = Append(kept, now)
             /\ lock' = "free"
             /\ lpc' = [lpc EXCEPT ![t] = "idle"]
             /\ UNCHANGED wake

\* task t calls acquire(): it takes the free lock at once, or queues for it
AcquireCall(t) ==
    /\ lpc[t] = "idle"
    /\ Cardinality(AcquireCalls) < MaxAcquires
    /\ LET h == Append(hist[t],
                       [start |-> now, end |-> NoEnd, empty |-> request_times = <<>>])
       IN  IF lock = "free" /\ waiters = <<>>
           THEN /\ Critical(t)
                /\ hist' = [hist EXCEPT ![t] =
                               IF lpc'[t] = "idle"
                               THEN [h EXCEPT ![Len(h)] = [@ EXCEPT !.end = now]]
                               ELSE h]
                /\ UNCHANGED waiters
           ELSE /\ waiters' = Append(waiters, t)
                /\ lpc' = [lpc EXCEPT ![t] = "wait_lock"]
                /\ hist' = [hist EXCEPT ![t] = h]
                /\ UNCHANGED <<request_times, lock, wake>>
    /\ UNCHANGED <<now, config>>

\* the lock is released to the first waiter, which enters lines 30-47
LockGranted(t) ==
    /\ lpc[t] = "wait_lock"
    /\ lock = "free"
    /\ waiters # <<>> /\ Head(waiters) = t
    /\ waiters' = Tail(waiters)
    /\ Critical(t)
    /\ hist' = IF lpc'[t] = "idle" THEN Completed(t) ELSE hist
    /\ UNCHANGED <<now, config>>

\* asyncio.sleep(sleep_time) is over: lines 42-47
WakeUp(t) ==
    /\ lpc[t] = "sleeping"
    /\ now >= wake[t]
    /\ request_times' = Append(Evict(request_times, now, config), now)
    /\ lock' = "free"
    /\ lpc' = [lpc EXCEPT ![t] = "idle"]
    /\ hist' = Completed(t)
    /\ UNCHANGED <<now, config, waiters, wake>>

\* the clock advances: up to MaxTime, and beyond it while a sleep is not over
Tick ==
    /\ \/ now < MaxTime
       \/ \E t \in DOMAIN lpc : lpc[t] = "sleeping" /\ now < wake[t]
    /\ now' = now + 1
    /\ UNCHANGED <<config, request_times, lock, waiters, lpc, wake, hist>>

LimiterInit ==
    /\ WorkflowIdle
    /\ FanOutIdle
    /\ RetryIdle
    /\ DirIdle
    /\ now = 0
    /\ config \in Configs
    /\ request_times = <<>>
    /\ lock = "free"
    /\ waiters = <<>>
    /\ lpc = [t \in Tasks |-> "idle"]
    /\ wake = [t \in Tasks |-> 0]
    /\ hist = [t \in Tasks |-> <<>>]

\* a step of the limiter leaves the other components alone
Limiter(A) == A /\ UNCHANGED <<wfVars, fanVars, retryVars, dirVars>>

LimiterNext ==
    \/ \E t \in Tasks : Limiter(AcquireCall(t))
    \/ \E t \in Tasks : Limiter(LockGranted(t))
    \/ \E t \in Tasks : Limiter(WakeUp(t))
    \/ Limiter(Tick)

LimiterSpec == LimiterInit /\ [][LimiterNext]_vars

\* the event loop runs every callback that is ready and every timer that is
\* due, and time passes: a waiter handed the lock and a sleeper whose sleep
\* is over are resumed; nothing obliges a task to call acquire()
LimiterFairSpec ==
    /\ LimiterSpec
    /\ WF_vars(Limiter(Tick))
    /\ \A t \in Tasks : WF_vars(Limiter(LockGranted(t)))
    /\ \A t \in Tasks : WF_vars(Limiter(WakeUp(t)))

\* a cancellation that leaves the lock with the cancelled sleeper
Cancel_KeepsLock(t) ==
    /\ lpc[t] \in {"wait_lock", "sleeping"}
    /\ lpc' = [lpc EXCEPT ![t] = "idle"]
    /\ waiters' = SelectSeq(waiters, LAMBDA u : u # t)
    /\ UNCHANGED <<now, config, request_times, lock, wake, hist>>

\* task t is cancelled inside acquire(): CancelledError is raised at its
\* await. In the sleep (line 40) it leaves `async with self.lock`, which
\* releases the lock; in the wait for the lock (line 29) it leaves the queue
\* of waiters. Line 47 is not reached.
Cancel(t) ==
    /\ lpc[t] \in {"wait_lock", "sleeping"}
    /\ lpc' = [lpc EXCEPT ![t] = "idle"]
    /\ IF lpc[t] = "sleeping"
       THEN lock' = "free" /\ UNCHANGED waiters
       ELSE waiters' = SelectSeq(waiters, LAMBDA u : u # t) /\ UNCHANGED lock
    /\ UNCHANGED <<now, config, request_times, wake, hist>>

CancelNext ==
    \/ LimiterNext
    \/ \E t \in Tasks : Limiter(Cancel(t))

CancelSpec == LimiterInit /\ [][CancelNext]_vars

(* ------------- OpenAIClient.generate_text under @retry ----------------- *)
\* what the chat completion returns, and the exceptions it raises
RemoteValues == {"text_a", "text_b"}
RemoteErrors == {"APIError", "TimeoutError"}

\* a stop rule that allows one attempt more
ShouldStop_OneMore(n) == n > MaxAttemptNumber

\* stop_after_attempt: no retry after the attempt with this number
ShouldStop(n) == n >= MaxAttemptNumber

\* wait_exponential after the failure of attempt n:
\* multiplier * 2 ** (n - 1), not below min and not above max
WaitExponential(n) ==
    LET result == RetryMultiplier * (2 ^ (n - 1))
        capped == IF result < RetryMax THEN result ELSE RetryMax
        floor == IF 0 > RetryMin THEN 0 ELSE RetryMin
    IN  IF capped > floor THEN capped ELSE floor

ClientConfig == [max_requests |-> ClientMaxRequests, time_window |-> ClientTimeWindow]

\* the acquire() of the attempt in progress has returned
Acquired(t) == lpc[t] = "idle" /\ hist[t] # <<>> /\ hist[t][Len(hist[t])].end # NoEnd

\* generate_text is called: attempt 1 enters `async with self.rate_limiter`
CallStart(t) ==
    /\ rpc[t] = "idle"
    /\ tries[t] = <<>>
    /\ attempt' = [attempt EXCEPT ![t] = 1]
    /\ rpc' = [rpc EXCEPT ![t] = "attempt"]
    /\ AcquireCall(t)
    /\ UNCHANGED <<tries, backoff_until, call_result>>

\* the chat completion of the attempt in progress returns: so does the call
RemoteReturns(t, v) ==
    /\ rpc[t] = "attempt"
    /\ Acquired(t)
    /\ tries' = [tries EXCEPT ![t] =
                    Append(@, [n |-> attempt[t], at |-> now, ok |-> TRUE, value |-> v])]
    /\ rpc' = [rpc EXCEPT ![t] = "returned"]
    /\ call_result' = [call_result EXCEPT ![t] = [kind |-> "value", value |-> v]]
    /\ UNCHANGED <<attempt, backoff_until, limVars>>

\* the attempt in progress raises: RetryError after the last attempt, the
\* backoff sleep otherwise
RemoteRaises(t, e) ==
    /\ rpc[t] = "attempt"
    /\ Acquired(t)
    /\ tries' = [tries EXCEPT ![t] =
                    Append(@, [n |-> attempt[t], at |-> now, ok |-> FALSE, value |-> e])]
    /\ IF ShouldStop(attempt[t])
       THEN /\ rpc' = [rpc EXCEPT ![t] = "raised"]
            /\ call_result' = [call_result EXCEPT ![t] =
                                  [kind |-> "RetryError", value |-> e]]
            /\ UNCHANGED backoff_until
       ELSE /\ rpc' = [rpc EXCEPT ![t] = "backoff"]
            /\ backoff_until' = [backoff_until EXCEPT ![t] =
                                    now + WaitExponential(attempt[t])]
            /\ UNCHANGED call_result
    /\ UNCHANGED <<attempt, limVars>>

\* a retry that re-sends the request under the acquire() of the first attempt
NextAttempt_NoAcquire(t) ==
    /\ rpc[t] = "backoff"
    /\ now >= backoff_until[t]
    /\ attempt' = [attempt EXCEPT ![t] = @ + 1]
    /\ rpc' = [rpc EXCEPT ![t] = "attempt"]
    /\ UNCHANGED <<tries, backoff_until, call_result, limVars>>

\* the backoff sleep is over: the next attempt enters the rate limiter
NextAttempt(t) ==
    /\ rpc[t] = "backoff"
    /\ now >= backoff_until[t]
    /\ attempt' = [attempt EXCEPT ![t] = @ + 1]
    /\ rpc' = [rpc EXCEPT ![t] = "attempt"]
    /\ AcquireCall(t)
    /\ UNCHANGED <<tries, backoff_until, call_result>>

\* no call has been made, no result is there yet
NoOutcome == [kind |-> "none", value |-> "none"]

RetryInit ==
    /\ WorkflowIdle
    /\ FanOutIdle
    /\ DirIdle
    /\ attempt = [t \in Tasks |-> 0]
    /\ rpc = [t \in Tasks |-> "idle"]
    /\ tries = [t \in Tasks |-> <<>>]
    /\ backoff_until = [t \in Tasks |-> 0]
    /\ call_result = [t \in Tasks |-> NoOutcome]
    /\ now = 0
    /\ config = ClientConfig
    /\ request_times = <<>>
    /\ lock = "free"
    /\ waiters = <<>>
    /\ lpc = [t \in Tasks |-> "idle"]
    /\ wake = [t \in Tasks |-> 0]
    /\ hist = [t \in Tasks |-> <<>>]

\* a step of a client call leaves the orchestrator and the fan-out alone
Client(A) == A /\ UNCHANGED <<wfVars, fanVars, dirVars>>

RetryNext ==
    \/ \E t \in Tasks : Client(CallStart(t))
    \/ \E t \in Tasks, v \in RemoteValues : Client(RemoteReturns(t, v))
    \/ \E t \in Tasks, e \in RemoteErrors : Client(RemoteRaises(t, e))
    \/ \E t \in Tasks : Client(NextAttempt(t))
    \/ Limiter(Tick)

RetrySpec == RetryInit /\ [][RetryNext]_vars

(* ------------- OpenAIClient.generate_image under @retry --------------- *)
\* what images.generate returns and raises
ImageUrls == {"url"}
ImageErrors == {"APIError"}

\* the client as __init__ configures it: USE_AZURE_OPENAI set or not
ImageClientConfig(azure) ==
    [max_requests |-> ClientMaxRequests, time_window |-> ClientTimeWindow,
     use_azure |-> azure]

\* the request to the first endpoint raises: with Azure the except branch
\* sends the request again to the full endpoint path, inside the same
\* `async with self.rate_limiter`
FirstEndpointRaises(t, e) ==
    /\ rpc[t] = "attempt"
    /\ Acquired(t)
    /\ IF config.use_azure
       THEN /\ tries' = [tries EXCEPT ![t] =
                           Append(@, [n |-> attempt[t], at |-> now,
                                      ok |-> FALSE, value |-> e])]
            /\ rpc' = [rpc EXCEPT ![t] = "second_endpoint"]
            /\ UNCHANGED <<attempt, backoff_until, call_result, limVars>>
       ELSE RemoteRaises(t, e)

\* the request to the full endpoint path returns: so does the call
SecondEndpointReturns(t, v) ==
    /\ rpc[t] = "second_endpoint"
    /\ tries' = [tries EXCEPT ![t] =
                    Append(@, [n |-> attempt[t], at |-> now, ok |-> TRUE, value |-> v])]
    /\ rpc' = [rpc EXCEPT ![t] = "returned"]
    /\ call_result' = [call_result EXCEPT ![t] = [kind |-> "value", value |-> v]]
    /\ UNCHANGED <<attempt, backoff_until, limVars>>

\* the request to the full endpoint path raises: the attempt has failed
SecondEndpointRaises(t, e) ==
    /\ rpc[t] = "second_endpoint"
    /\ tries' = [tries EXCEPT ![t] =
                    Append(@, [n |-> attempt[t], at |-> now, ok |-> FALSE, value |-> e])]
    /\ IF ShouldStop(attempt[t])
       THEN /\ rpc' = [rpc EXCEPT ![t] = "raised"]
            /\ call_result' = [call_result EXCEPT ![t] =
                                  [kind |-> "RetryError", value |-> e]]
            /\ UNCHANGED backoff_until
       ELSE /\ rpc' = [rpc EXCEPT ![t] = "backoff"]
            /\ backoff_until' = [backoff_until EXCEPT ![t] =
                                    now + WaitExponential(attempt[t])]
            /\ UNCHANGED call_result
    /\ UNCHANGED <<attempt, limVars>>

ImageInit ==
    /\ WorkflowIdle
    /\ FanOutIdle
    /\ DirIdle
    /\ attempt = [t \in Tasks |-> 0]
    /\ rpc = [t \in Tasks |-> "idle"]
    /\ tries = [t \in Tasks |-> <<>>]
    /\ backoff_until = [t \in Tasks |-> 0]
    /\ call_result = [t \in Tasks |-> NoOutcome]
    /\ now = 0
    /\ \E azure \in BOOLEAN : config = ImageClientConfig(azure)
    /\ request_times = <<>>
    /\ lock = "free"
    /\ waiters = <<>>
    /\ lpc = [t \in Tasks |-> "idle"]
    /\ wake = [t \in Tasks |-> 0]
    /\ hist = [t \in Tasks |-> <<>>]

ImageNext ==
    \/ \E t \in Tasks : Client(CallStart(t))
    \/ \E t \in Tasks, v \in ImageUrls : Client(RemoteReturns(t, v))
    \/ \E t \in Tasks, e \in ImageErrors : Client(FirstEndpointRaises(t, e))
    \/ \E t \in Tasks, v \in ImageUrls : Client(SecondEndpointReturns(t, v))
    \/ \E t \in Tasks, e \in ImageErrors : Client(SecondEndpointRaises(t, e))
    \/ \E t \in Tasks : Client(NextAttempt(t))
    \/ Limiter(Tick)

ImageSpec == ImageInit /\ [][ImageNext]_vars

(* ------------- StateManager: the files of the state directory --------- *)
\* datetime.now().isoformat(): "YYYY-MM-DDTHH:MM:SS" when the microsecond is
\* 0 and "YYYY-MM-DDTHH:MM:SS.ffffff" otherwise. Every part has a fixed
\* width, so a string is the sequence of the whole seconds and, if present,
\* the fraction; the clock reads TicksPerSecond times a second.
isoformat(t) ==
    IF t % TicksPerSecond = 0
    THEN <<t \div TicksPerSecond>>
    ELSE <<t \div TicksPerSecond, t % TicksPerSecond>>

\* the default_factory of created_at and updated_at: a WorkflowState built
\* at time t
Stamped(rec, t) ==
    [f \in DOMAIN rec \cup {"created_at", "updated_at"} |->
        IF f \in {"created_at", "updated_at"} THEN isoformat(t) ELSE rec[f]]

OptionalFields ==
    {"niche", "keywords", "concepts", "selected_concept_index", "script",
     "image_paths", "audio_path", "video_path", "error_message"}

\* json.dump(state.model_dump()): None is written as null
json_dump(rec) ==
    [f \in DOMAIN rec |->
        IF f \in OptionalFields
        THEN IF rec[f] = None THEN [null |-> TRUE, v |-> ""]
             ELSE [null |-> FALSE, v |-> rec[f][1]]
        ELSE rec[f]]

\* a load that stamps the record anew instead of reading its timestamps
json_load_Restamped(doc) ==
    [f \in DOMAIN doc |->
        IF f \in OptionalFields
        THEN IF doc[f].null THEN None ELSE Some(doc[f].v)
        ELSE IF f \in {"created_at", "updated_at"} THEN isoformat(0)
        ELSE doc[f]]

\* WorkflowState(**json.load(f)): null is read as None
json_load(doc) ==
    [f \in DOMAIN doc |->
        IF f \in OptionalFields
        THEN IF doc[f].null THEN None ELSE Some(doc[f].v)
        ELSE doc[f]]

\* a file that does not exist; a file opened with mode "w" whose text is
\* not written out yet; a file that holds a whole JSON document
Absent == [kind |-> "absent"]
Truncated == [kind |-> "truncated"]
Written(doc) == [kind |-> "json", doc |-> doc]

\* load_state on the files: None when the file does not exist and when
\* json.load raises JSONDecodeError
LoadStateFile(fs, id) ==
    IF fs[id].kind = "json" THEN Some(json_load(fs[id].doc)) ELSE None

\* the records put to the store: a WorkflowState built at the current or at
\* an earlier clock reading
InputRecords ==
    {Stamped(WorkflowState([InitialState(id, n, "") EXCEPT !.status = st]), t) :
        id \in Ids, n \in Niches, st \in {"in_progress", "completed"}, t \in 0..now}

\* save_state, lines 47-50: updated_at is set and open(state_file, "w")
\* empties the file
SaveStateOpen(w, rec) ==
    /\ put[w].pc = "idle"
    /\ put[w].n < MaxPuts
    /\ put' = [put EXCEPT ![w] =
                  [pc |-> "dump", n |-> put[w].n + 1, arg |-> rec,
                   rec |-> [rec EXCEPT !.updated_at = isoformat(now)],
                   existed |-> files[rec.workflow_id].kind = "json"]]
    /\ files' = [files EXCEPT ![rec.workflow_id] = Truncated]
    /\ UNCHANGED seen

\* the characters of a document that vary from one record to another: the
\* status, and the timestamps with or without their ".ffffff"
TextLength(doc) ==
    LET stamp(x) == IF Len(x) = 1 THEN SecondsChars ELSE SecondsChars + MicrosChars
    IN  (IF doc.status = "in_progress" THEN 11 ELSE 9)
            + stamp(doc.created_at) + stamp(doc.updated_at)

\* a file that holds the text of one document followed by the end of a
\* longer one: json.load raises on it
Mixed == [kind |-> "mixed"]

\* save_state, lines 50-54: json.dump writes the document from offset 0 of
\* the writer's own descriptor and the file is closed. Text that another
\* writer has put there since this writer's open() emptied the file stays
\* beyond the end of the shorter document.
SaveStateDump(w) ==
    /\ put[w].pc = "dump"
    /\ LET id == put[w].rec.workflow_id
           doc == json_dump(put[w].rec)
       IN  files' = [files EXCEPT ![id] =
                        IF files[id].kind = "json"
                           /\ TextLength(files[id].doc) > TextLength(doc)
                        THEN Mixed
                        ELSE Written(doc)]
    /\ put' = [put EXCEPT ![w] = [pc |-> "idle", n |-> put[w].n]]
    /\ UNCHANGED seen

\* the ids whose record is being replaced by a save_state call in progress
Rewritten ==
    {put[w].rec.workflow_id : w \in {x \in Writers : put[x].pc = "dump" /\ put[x].existed}}

\* load_state by a reader of the directory
LoadState(id) ==
    /\ seen' = [op |-> "load_state", id |-> id, result |-> LoadStateFile(files, id),
                writing |-> Rewritten]
    /\ UNCHANGED <<files, put>>

\* the summary list_workflows builds from the data of one file
Summary(doc) ==
    [workflow_id |-> doc.workflow_id, created_at |-> doc.created_at,
     updated_at |-> doc.updated_at, current_step |-> doc.current_step,
     status |-> doc.status,
     niche |-> IF doc.niche.null THEN None ELSE Some(doc.niche.v)]

\* the orders in which glob("*.json") may yield the files
GlobOrders ==
    {o \in [1..Cardinality(Ids) -> Ids] : \A i, j \in 1..Cardinality(Ids) : i # j => o[i] # o[j]}

\* sorted(workflows, key=updated_at, reverse=True): descending, and stable,
\* so summaries with equal keys stay in the order of the glob
SortedByUpdated(ws) ==
    LET before(i) ==
            Cardinality({j \in 1..Len(ws) :
                \/ PathLess(ws[i].updated_at, ws[j].updated_at)
                \/ (ws[j].updated_at = ws[i].updated_at /\ j < i)})
    IN  [k \in 1..Len(ws) |-> ws[CHOOSE i \in 1..Len(ws) : before(i) = k - 1]]

\* a listing in the order of the glob
list_workflows_Unsorted(fs, order) ==
    LET readable == SelectSeq(order, LAMBDA id : fs[id].kind = "json")
    IN  [k \in 1..Len(readable) |-> Summary(fs[readable[k]].doc)]

\* list_workflows: the files that do not parse are skipped
list_workflows(fs, order) ==
    LET readable == SelectSeq(order, LAMBDA id : fs[id].kind = "json")
    IN  SortedByUpdated([k \in 1..Len(readable) |-> Summary(fs[readable[k]].doc)])

ListWorkflows(order) ==
    /\ seen' = [op |-> "list_workflows", id |-> "", result |-> list_workflows(files, order),
                writing |-> Rewritten]
    /\ UNCHANGED <<files, put>>

\* a delete that empties the directory
delete_state_All(fs, id) == [i \in Ids |-> Absent]

\* delete_state: unlink the file if it exists
delete_state(fs, id) ==
    IF fs[id].kind # "absent" THEN [fs EXCEPT ![id] = Absent] ELSE fs

DeleteState(w, id) ==
    /\ put[w].pc = "idle"
    /\ files' = delete_state(files, id)
    /\ seen' = [op |-> "delete_state", id |-> id, result |-> files[id].kind # "absent",
                writing |-> Rewritten]
    /\ UNCHANGED put

DirInit ==
    /\ WorkflowIdle
    /\ FanOutIdle
    /\ LimiterIdle
    /\ RetryIdle
    /\ files = [id \in Ids |-> Absent]
    /\ put = [w \in Writers |-> [pc |-> "idle", n |-> 0]]
    /\ seen = [op |-> "none", id |-> "", result |-> None, writing |-> {}]

\* a step on the state directory leaves the other components alone
Dir(A) == A /\ UNCHANGED <<wfVars, fanVars, limVars, retryVars>>

\* the clock datetime.now() reads advances
DirTick ==
    /\ now < MaxStamp
    /\ now' = now + 1
    /\ UNCHANGED <<config, request_times, lock, waiters, lpc, wake, hist>>

DirNext ==
    \/ \E w \in Writers, rec \in InputRecords : Dir(SaveStateOpen(w, rec))
    \/ \E w \in Writers : Dir(SaveStateDump(w))
    \/ \E id \in Ids : Dir(LoadState(id))
    \/ \E order \in GlobOrders : Dir(ListWorkflows(order))
    \/ \E w \in Writers, id \in Ids : Dir(DeleteState(w, id))
    \/ Limiter(DirTick)

DirSpec == DirInit /\ [][DirNext]_vars

\* two processes (a CLI run, the web app) save records in the same directory
WritersInit ==
    /\ WorkflowIdle
    /\ FanOutIdle
    /\ LimiterIdle
    /\ RetryIdle
    /\ files = [id \in Ids |-> Absent]
    /\ put = [w \in Processes |-> [pc |-> "idle", n |-> 0]]
    /\ seen = [op |-> "none", id |-> "", result |-> None, writing |-> {}]

\* the writers save records of the same id
WritersNext ==
    \/ \E w \in Processes, rec \in {r \in InputRecords : r.workflow_id \in StartIds} :
          Dir(SaveStateOpen(w, rec))
    \/ \E w \in Processes : Dir(SaveStateDump(w))
    \/ \E id \in StartIds : Dir(LoadState(id))
    \/ Limiter(DirTick)

WritersSpec == WritersInit /\ [][WritersNext]_vars

(* ---------- ReelsWorkflow._save_state_node on the state directory ------ *)
\* _save_state_node at clock reading t: WorkflowState(...) is built from the
\* state dict without created_at and updated_at, so both default factories
\* run; save_state sets updated_at again and writes the file
SaveStateNodeAt(fs, s, t) ==
    [fs EXCEPT ![s.workflow_id] =
        Written(json_dump([Stamped(WorkflowState(s), t) EXCEPT
                              !.updated_at = isoformat(t)]))]

\* start_workflow under a fresh id: the concept node, then the save node
StartSave(id, niche, r) ==
    /\ files[id].kind = "absent"
    /\ FirstParse(r).tag # "fallback"
    /\ files' = SaveStateNodeAt(files,
                    GenerateConceptsNode(InitialState(id, niche, ""),
                                         ConceptResult(FirstParse(r), 1)),
                    now)
    /\ UNCHANGED <<put, seen>>

\* continue_workflow up to its first save: the record is loaded, the script
\* node runs (IndexError when the index selects no concept), the save node
\* follows
SelectSave(id, index, r) ==
    LET saved_state == LoadStateFile(files, id)
        s0 == StateFromSaved(saved_state[1], index)
        parsed == ScriptFirstParse(SelectedConcept(s0), r)
    IN  /\ saved_state # None
        /\ InRange(s0.concepts, index) => parsed.tag # "fallback"
        /\ files' = SaveStateNodeAt(files,
                        IF InRange(s0.concepts, index)
                        THEN GenerateScriptNode(s0, ScriptResult(parsed, 1))
                        ELSE ScriptNodeFailed(s0),
                        now)
        /\ UNCHANGED <<put, seen>>

SaveNodeInit ==
    /\ WorkflowIdle
    /\ FanOutIdle
    /\ LimiterIdle
    /\ RetryIdle
    /\ files = [id \in Ids |-> Absent]
    /\ put = <<>>
    /\ seen = <<>>

SaveNodeNext ==
    \/ \E id \in Ids, niche \in Niches, r \in ConceptResponses :
            Dir(StartSave(id, niche, r))
    \/ \E id \in Ids, index \in 0..MaxIndex, r \in ScriptResponses :
            Dir(SelectSave(id, index, r))
    \/ Limiter(DirTick)

SaveNodeSpec == SaveNodeInit /\ [][SaveNodeNext]_vars

(* ------------------------------ properties ---------------------------- *)
Stored(id) == store[id] # NoFile
StoredConcepts(id) == OrElse(store[id].concepts, <<>>)
Returned(c, name) == pc[c] = "returned" /\ op[c].name = name
\* caller c issues continue_workflow in this step
Selects(c) == pc[c] = "idle" /\ op'[c].name = "select"
\* a valid selection: 0 <= i < len(concepts)
ValidSelection(concepts, i) == 0 <= i /\ i < Len(concepts)
StagePcs == {"generate_script", "generate_script_fallback", "generate_images",
             "assemble_video"}

\* C1: continue_workflow with an index outside [0, len(concepts)) raises to
\* the caller and leaves the store as it was.
C1_OutOfRangeRaises ==
    [][\A c \in Callers :
          (/\ Selects(c)
           /\ Stored(op'[c].workflow_id)
           /\ ~ValidSelection(StoredConcepts(op'[c].workflow_id), op'[c].index))
          => (pc'[c] = "raised" /\ store' = store)]_vars

\* C2: continue_workflow on a record whose status is completed, failed or
\* in_progress runs no stage and leaves the store as it was.
C2_SelectOnlyWhenWaiting ==
    [][\A c \in Callers :
          (/\ Selects(c)
           /\ Stored(op'[c].workflow_id)
           /\ store[op'[c].workflow_id].status \in {"completed", "failed", "in_progress"})
          => (pc'[c] \notin StagePcs /\ store' = store)]_vars

\* C3: the record start_workflow returns has status waiting_for_selection or
\* failed and a non-empty current_step.
C3_StartStatus ==
    \A c \in Callers :
        Returned(c, "start") =>
            /\ state[c].status \in {"waiting_for_selection", "failed"}
            /\ state[c].current_step # ""

C3_Witness ==
    \E c \in Callers :
        /\ Returned(c, "start")
        /\ state[c].status = "failed"
        /\ Len(log[c]) = 1 /\ log[c][1].raised

C5_UnknownIdRaises ==
    [][\A c \in Callers :
          (Selects(c) /\ ~Stored(op'[c].workflow_id))
          => (pc'[c] = "raised" /\ log'[c] = <<>> /\ store' = store)]_vars

C5_Witness ==
    \E c \in Callers, id \in Ids :
        /\ pc[c] = "raised"
        /\ op[c].name = "select"
        /\ ~Stored(op[c].workflow_id)
        /\ Stored(id)

\* C6: once the stored selected_concept_index holds a selection no later
\* operation changes it.
C6_SelectionWriteOnce ==
    [][\A id \in Ids :
          (/\ Stored(id)
           /\ store[id].selected_concept_index # None
           /\ ValidSelection(StoredConcepts(id), store[id].selected_concept_index[1]))
          => store'[id].selected_concept_index = store[id].selected_concept_index]_vars

\* C7: in every stored record selected_concept_index is unset or indexes
\* into concepts.
C7_SelectionIndexesConcepts ==
    \A id \in Ids :
        Stored(id) =>
            \/ store[id].selected_concept_index = None
            \/ ValidSelection(StoredConcepts(id), store[id].selected_concept_index[1])

\* C8: in every returned and every stored record, status completed implies
\* that the video path is set and the current step is video_assembly.
C8_CompletedHasVideo ==
    /\ \A c \in Callers :
          state[c].status = "completed" =>
              state[c].video_path # "" /\ state[c].current_step = "video_assembly"
    /\ \A id \in Ids :
          (Stored(id) /\ store[id].status = "completed") =>
              /\ store[id].video_path \notin {None, Some("")}
              /\ store[id].current_step = "video_assembly"

C8_Witness ==
    \E c \in Callers :
        /\ Returned(c, "select")
        /\ state[c].status = "completed"
        /\ store[op[c].workflow_id].status = "completed"

\* C9: in every returned and every stored record, status failed implies a
\* non-empty error_message.
C9_FailedHasMessage ==
    /\ \A c \in Callers :
          state[c].status = "failed" => state[c].error_message # ""
    /\ \A id \in Ids :
          (Stored(id) /\ store[id].status = "failed") =>
              store[id].error_message \notin {None, Some("")}

C9_Witness ==
    \E c \in Callers :
        /\ Returned(c, "select")
        /\ state[c].status = "failed"
        /\ store[op[c].workflow_id].status = "failed"

\* C10: the record start_workflow returns holds at most 3 concepts; it is
\* waiting_for_selection exactly when it holds 1 to 3 concepts, 1 or 2 only
\* after the re-prompt, and with no concept it is failed.
C10_AtMostThreeConcepts ==
    \A c \in Callers :
        Returned(c, "start") =>
            /\ Len(state[c].concepts) <= 3
            /\ state[c].status = "waiting_for_selection"
                   <=> Len(state[c].concepts) \in 1..3
            /\ Len(state[c].concepts) \in 1..2 => log[c][1].requests = 2
            /\ Len(state[c].concepts) = 0 => state[c].status = "failed"

\* the collaborators of continue_workflow in the order of its sub-stages
StageOrder == <<"scriptwriter", "media_generator", "video_assembler">>
SelectRecordId(c) == op[c].workflow_id

\* C11: within one continue_workflow call the collaborators are invoked in
\* the order scriptwriter, media generator, video assembler; the media
\* generator is awaited only after the script stage succeeded, the assembler
\* only after the media stage succeeded, and a stage that raised is the last
\* one invoked.
C11_SubStagesInOrder ==
    \A c \in Callers :
        op[c].name = "select" =>
            /\ Len(log[c]) <= 3
            /\ \A i \in 1..Len(log[c]) : log[c][i].agent = StageOrder[i]
            /\ \A i \in 1..Len(log[c]) :
                  log[c][i].raised => (i = Len(log[c]) /\ pc[c] = "returned")
            /\ pc[c] \in {"generate_script", "generate_script_fallback"}
                  => log[c] = <<>>
            /\ pc[c] = "generate_images"
                  => (Len(log[c]) = 1 /\ state[c].status # "failed")
            /\ pc[c] = "assemble_video"
                  => (Len(log[c]) = 2 /\ state[c].status # "failed")

C11_Witness ==
    \E c \in Callers :
        /\ Returned(c, "select")
        /\ Len(log[c]) = 3
        /\ log[c][3].agent = "video_assembler"

C13_EarlierArtifactsKept ==
    [][\A c \in Callers :
          /\ (pc[c] = "generate_images" /\ state'[c].status = "failed") =>
                 /\ state'[c].script = state[c].script
                 /\ store'[SelectRecordId(c)].script = Some(state[c].script)
          /\ (pc[c] = "assemble_video" /\ state'[c].status = "failed") =>
                 /\ state'[c].script = state[c].script
                 /\ state'[c].image_paths = state[c].image_paths
                 /\ store'[SelectRecordId(c)].script = Some(state[c].script)
                 /\ store'[SelectRecordId(c)].image_paths
                        = Some(state[c].image_paths)]_vars

C13_Witness ==
    \E c \in Callers :
        /\ Returned(c, "select")
        /\ Len(log[c]) = 3
        /\ log[c][3].raised
        /\ state[c].image_paths # <<>>
        /\ store[SelectRecordId(c)].image_paths = Some(state[c].image_paths)
        /\ store[SelectRecordId(c)].script = Some(state[c].script)

\* every image request of this continue_workflow call failed
AllImagesFailed(c) ==
    /\ Returned(c, "select")
    /\ ValidSelection(state[c].concepts, op[c].index)
    /\ Len(log[c]) = 2
    /\ ~log[c][1].raised
    /\ log[c][2].requests >= 1
    /\ log[c][2].failures = log[c][2].requests

\* C14: when the script stage succeeded and every image request failed,
\* continue_workflow returns status failed, the current step is the image
\* generation step, and the error message names the batch without images.
C14_FailedAtImageGeneration ==
    \A c \in Callers :
        AllImagesFailed(c) =>
            /\ state[c].status = "failed"
            /\ state[c].error_message
                   = "Image generation failed: Failed to generate any images"
            /\ state[c].current_step = "image_generation"

\* C15: for a script of N >= 1 segments of which k < N image requests
\* failed, with speech and rendering succeeding, continue_workflow returns
\* status completed with N - k image paths and the video path set.
C15_PartialImagesComplete ==
    \A c \in Callers :
        (/\ Returned(c, "select")
         /\ Len(log[c]) >= 2
         /\ log[c][2].failures < log[c][2].requests)
        => /\ ~log[c][2].raised
           /\ Len(log[c]) = 3
           /\ Len(state[c].image_paths) = log[c][2].requests - log[c][2].failures
           /\ Len(Get(state[c].script, "segments", <<>>)) = log[c][2].requests
           /\ store[SelectRecordId(c)].image_paths = Some(state[c].image_paths)
           /\ ~log[c][3].raised =>
                  /\ state[c].status = "completed"
                  /\ state[c].video_path # ""
                  /\ store[SelectRecordId(c)].status = "completed"

C15_Witness ==
    \E c \in Callers :
        /\ Returned(c, "select")
        /\ Len(log[c]) = 3
        /\ log[c][2].failures = 1
        /\ log[c][2].requests = 2
        /\ ~log[c][3].raised
        /\ state[c].status = "completed"

\* C16: generate_images runs every task whatever the others did and in
\* whatever order they complete; with at least one success it returns the
\* images of exactly the successful prompts in ascending prompt order, and
\* with none (an empty prompt list included) it raises.
C16_BatchInIndexOrder ==
    batch.pc \in {"returned", "raised"} =>
        /\ Pending(results) = {}
        /\ batch.pc = "raised" <=> (1..prompts) \ failing = {}
        /\ batch.pc = "returned" =>
               /\ Len(batch.image_paths) = prompts - Cardinality(failing)
               /\ {batch.image_paths[k] : k \in 1..Len(batch.image_paths)}
                      = (1..prompts) \ failing
               /\ \A k \in 1..(Len(batch.image_paths) - 1) :
                      batch.image_paths[k] < batch.image_paths[k + 1]

\* the acquire() calls that have returned, and when
Granted == {k \in AcquireCalls : hist[k[1]][k[2]].end # NoEnd}
GrantedAt(k) == hist[k[1]][k[2]].end

\* C17: of the acquire() calls that returned, any max_requests + 1 lie at
\* least time_window apart from first to last, whatever the interleaving of
\* the tasks: no window shorter than time_window holds more than
\* max_requests of them.
C17_AtMostMaxPerWindow ==
    \A S \in SUBSET Granted :
        Cardinality(S) = config.max_requests + 1 =>
            \E j, k \in S : GrantedAt(k) - GrantedAt(j) >= config.time_window

\* C18: when a task issues max_requests + 1 acquire() calls one after the
\* other, the first of them on an empty limiter, at least time_window passes
\* from the start of the first to the return of the last.
C18_BurstTakesAWindow ==
    \A t \in Tasks :
        \A i \in 1..Len(hist[t]) :
            (/\ hist[t][i].empty
             /\ i + config.max_requests <= Len(hist[t])
             /\ hist[t][i + config.max_requests].end # NoEnd)
            => hist[t][i + config.max_requests].end - hist[t][i].start
                   >= config.time_window

C18_Witness ==
    \E t \in Tasks :
        /\ Len(hist[t]) = config.max_requests + 1
        /\ hist[t][1].empty
        /\ hist[t][1].start = 0
        /\ hist[t][config.max_requests + 1].end = config.time_window
        /\ config.max_requests = MaxRequests

\* C19: a retry-wrapped client call makes at most 3 attempts; it returns the
\* value of the first attempt that succeeds and makes no attempt after it;
\* when 3 attempts raised, whatever they raised, it stops with a RetryError
\* that carries the exception of the last attempt.
C19_AtMostThreeAttempts ==
    \A t \in Tasks :
        /\ Len(tries[t]) <= 3
        /\ attempt[t] <= 3
        /\ \A i \in 1..Len(tries[t]) : tries[t][i].n = i
        /\ \A i \in 1..Len(tries[t]) :
              tries[t][i].ok =>
                  /\ i = Len(tries[t])
                  /\ rpc[t] = "returned"
                  /\ call_result[t] = [kind |-> "value", value |-> tries[t][i].value]
        /\ rpc[t] = "returned" => tries[t][Len(tries[t])].ok
        /\ rpc[t] = "raised" <=> (Len(tries[t]) = 3 /\ ~tries[t][3].ok)
        /\ rpc[t] = "raised" =>
              call_result[t] = [kind |-> "RetryError", value |-> tries[t][3].value]

C19_Witness ==
    \E t \in Tasks :
        /\ rpc[t] = "raised"
        /\ tries[t][1].value = "APIError"
        /\ tries[t][3].value = "TimeoutError"
        /\ call_result[t].value = "TimeoutError"

\* C20: the wait before attempt 2 is at least 2 s and the wait before
\* attempt 3 at least 4 s, so a call whose third attempt succeeds returns no
\* earlier than 6 s after its first attempt began.
C20_BackoffDoubles ==
    \A t \in Tasks :
        /\ Len(hist[t]) >= 2 => hist[t][2].start - tries[t][1].at >= 2
        /\ Len(hist[t]) >= 3 => hist[t][3].start - tries[t][2].at >= 4
        /\ (rpc[t] = "returned" /\ Len(tries[t]) = 3)
              => tries[t][3].at - hist[t][1].start >= 6

\* C21: every attempt of a retry-wrapped call, the first and each retry,
\* makes its own acquire() and the request is sent only after it returned: a
\* call with m attempts has made m acquire() calls, each recorded one
\* timestamp, and the timestamps of the failed attempts stay in the limiter.
C21_AcquirePerAttempt ==
    /\ \A t \in Tasks :
          /\ Len(hist[t]) = attempt[t]
          /\ \A i \in 1..Len(tries[t]) :
                /\ hist[t][i].end # NoEnd
                /\ hist[t][i].end <= tries[t][i].at
                /\ i < Len(hist[t]) => tries[t][i].at <= hist[t][i + 1].start
    /\ Len(request_times) = Cardinality(Granted)
    /\ \A k \in Granted :
          Cardinality({j \in 1..Len(request_times) : request_times[j] = GrantedAt(k)})
              = Cardinality({g \in Granted : GrantedAt(g) = GrantedAt(k)})

C21_Witness ==
    \E t \in Tasks :
        /\ rpc[t] = "raised"
        /\ Len(tries[t]) = 3
        /\ Len(hist[t]) = 3
        /\ Len(request_times) >= 3

\* the ids that have a complete state file
StoredIds == {id \in Ids : files[id].kind = "json"}

C23_ReadersSeeWholeRecord ==
    /\ (seen.op = "load_state" /\ seen.id \in seen.writing) => seen.result # None
    /\ seen.op = "list_workflows" =>
          \A id \in seen.writing :
              \E k \in 1..Len(seen.result) : seen.result[k].workflow_id = id

\* C24: with no save_state call in progress, list_workflows returns one
\* summary for each stored record and no other, in descending order of
\* updated_at, whatever order the directory is read in.
C24_ListSortedOnePerRecord ==
    (\A w \in Writers : put[w].pc = "idle") =>
        \A order \in GlobOrders :
            LET l == list_workflows(files, order)
            IN  /\ Len(l) = Cardinality(StoredIds)
                /\ \A id \in StoredIds :
                      \E k \in 1..Len(l) : l[k] = Summary(files[id].doc)
                /\ \A k \in 1..(Len(l) - 1) :
                      ~PathLess(l[k].updated_at, l[k + 1].updated_at)

C24_Witness ==
    /\ seen.op = "list_workflows"
    /\ seen.writing = {}
    /\ \A w \in Writers : put[w].pc = "idle" /\ put[w].n = 2
    /\ Len(seen.result) = 2
    /\ seen.result[1].workflow_id = "w2"
    /\ PathLess(seen.result[2].updated_at, seen.result[1].updated_at)
    /\ PathLess(seen.result[1].created_at, seen.result[2].created_at)
    /\ \A k \in 1..2 : seen.result[k] = Summary(files[seen.result[k].workflow_id].doc)

\* C25: delete_state(id) leaves no record of id, so that load_state(id)
\* returns None; on an id without a file it changes nothing; and in both
\* cases the file of every other id is as it was.
C25_DeleteFrame ==
    [][(seen'.op = "delete_state" /\ put' = put /\ now' = now) =>
          /\ LoadStateFile(files', seen'.id) = None
          /\ files'[seen'.id].kind = "absent"
          /\ files[seen'.id].kind = "absent" => files' = files
          /\ \A id \in Ids \ {seen'.id} : files'[id] = files[id]]_vars

C25_Witness ==
    /\ seen.op = "delete_state"
    /\ seen.result
    /\ files[seen.id].kind = "absent"
    /\ \E id \in StoredIds : id # seen.id

\* the stored record of id waits for a selection that was never made
AwaitsSelection(id) ==
    /\ Stored(id)
    /\ store[id].status = "waiting_for_selection"
    /\ store[id].selected_concept_index \in {None, Some(0 - 1)}

\* C26: resume_workflow on a record that start_workflow left waiting for a
\* selection asks for the selection and runs continue_workflow with it: a
\* resume that ended without doing so was not given such a record.
C26_ResumeAsksForSelection ==
    \A c \in Callers :
        (op[c].name = "resume" /\ pc[c] = "printed")
            => ~AwaitsSelection(op[c].workflow_id)

\* C27: no two sub-stages of one workflow id are in progress at the same
\* time, also when two sessions call continue_workflow for the id at once.
C27_OneStageAtATime ==
    \A c1, c2 \in Sessions :
        (/\ c1 # c2
         /\ pc[c1] \in StagePcs
         /\ pc[c2] \in StagePcs)
        => op[c1].workflow_id # op[c2].workflow_id

\* C28: no step of continue_workflow or resume_workflow calls the concept
\* strategist, and every such step leaves the stored concepts, niche and
\* keywords of every record as start_workflow saved them.
C28_SelectKeepsConcepts ==
    [][\A c \in Callers :
          op'[c].name \in {"select", "resume"} =>
              /\ \A i \in 1..Len(log'[c]) : log'[c][i].agent # "concept_strategist"
              /\ \A id \in Ids :
                    Stored(id) =>
                        /\ store'[id].concepts = store[id].concepts
                        /\ store'[id].niche = store[id].niche
                        /\ store'[id].keywords = store[id].keywords]_vars

C28_Witness ==
    \E c \in Callers :
        /\ Returned(c, "select")
        /\ calls = 3
        /\ Len(log[c]) = 3
        /\ state[c].status = "completed"
        /\ store[SelectRecordId(c)].concepts = Some(<<1, 2, 3>>)
        /\ store[SelectRecordId(c)].niche = Some("cooking")

\* the acquire() call of task t is cancelled in this step
Cancelled(t) ==
    /\ lpc[t] \in {"wait_lock", "sleeping"}
    /\ lpc'[t] = "idle"
    /\ hist'[t][Len(hist'[t])].end = NoEnd

\* C29: when a task is cancelled while it waits in acquire(), for the lock
\* or in the sleep, it does not hold the lock afterwards, it is no longer
\* queued for it, the timestamps are as they were (none is recorded for the
\* cancelled call), and the lock is free or held by a sleeper that will
\* release it, so the other tasks can complete acquire().
C29_CancelReleasesLock ==
    [][\A t \in Tasks :
          Cancelled(t) =>
              /\ request_times' = request_times
              /\ lock' # t
              /\ lock = t => lock' = "free"
              /\ \A k \in 1..Len(waiters') : waiters'[k] # t
              /\ \A k \in 1..Len(waiters') : lpc'[waiters'[k]] = "wait_lock"
              /\ lock' # "free" => lpc'[lock'] = "sleeping"]_vars

C29_Witness ==
    \E t, u \in Tasks :
        /\ t # u
        /\ lpc[t] = "idle" /\ hist[t] # <<>>
        /\ hist[t][Len(hist[t])].end = NoEnd
        /\ lpc[u] = "idle" /\ hist[u] # <<>>
        /\ hist[u][Len(hist[u])].end > hist[u][Len(hist[u])].start
        /\ hist[u][Len(hist[u])].start >= hist[t][Len(hist[t])].start
        /\ lock = "free"
        /\ Len(request_times) = Cardinality(Granted)

\* C30: under fair scheduling every acquire() call returns; a task that
\* has the lock either records its timestamp and releases the lock at once
\* or sleeps for at most time_window first.
C30_AcquireReturns ==
    /\ \A t \in Tasks : (lpc[t] # "idle") ~> (lpc[t] = "idle")
    /\ [][\A t \in Tasks :
             (lpc[t] # "sleeping" /\ lpc'[t] = "sleeping") =>
                 /\ lock' = t
                 /\ wake'[t] - now <= config.time_window]_vars
    /\ [][\A t \in Tasks :
             (lpc[t] = "sleeping" /\ lpc'[t] # "sleeping") =>
                 /\ lock' = "free"
                 /\ request_times' # <<>>
                 /\ request_times'[Len(request_times')] = now]_vars

C30_Witness ==
    \E t, u \in Tasks :
        /\ t # u
        /\ lpc[t] = "idle" /\ lpc[u] = "idle"
        /\ Len(hist[t]) >= 1 /\ Len(hist[u]) >= 1
        /\ hist[t][Len(hist[t])].end - hist[t][Len(hist[t])].start = config.time_window
        /\ hist[u][Len(hist[u])].end - hist[u][Len(hist[u])].start > config.time_window
        /\ Cardinality(Granted) = Cardinality(AcquireCalls)

\* C31: when the save_state calls of two writers for one id have both
\* returned, the file of the id holds one whole document, which load_state
\* reads: never text of both and never an unreadable file.
C31_LastWriteWins ==
    (\A w \in Processes : put[w].pc = "idle") =>
        \A id \in Ids :
            files[id].kind # "absent" =>
                /\ files[id].kind = "json"
                /\ LoadStateFile(files, id) # None

\* a response that is there but does not decode to exactly 3 valid concepts
MalformedConcepts(r) ==
    /\ r.kind # "error"
    /\ ~(r.kind = "array" /\ r.nValid = 3)

\* C32: generate_concepts re-prompts once whenever the first response does
\* not decode to exactly 3 valid concepts, whatever is wrong with it, and
\* never a second time; a re-prompt response that is still malformed gives
\* its 1 or 2 valid concepts, or a failure when it has none.
C32_RepromptOnce ==
    [][\A c \in Callers :
          /\ \A r \in ConceptResponses :
                (MalformedConcepts(r) /\ GenerateConcepts(c, r))
                    => pc'[c] = "generate_concepts_fallback"
          /\ pc[c] = "generate_concepts_fallback" =>
                \/ pc'[c] = "generate_concepts_fallback"
                \/ (pc'[c] = "returned" /\ log'[c][1].requests = 2)
          /\ \A r \in ConceptResponses :
                (/\ MalformedConcepts(r)
                 /\ r.nValid <= 2
                 /\ GenerateConceptsFallback(c, r))
                    => /\ state'[c].concepts = ValidConcepts(r)
                       /\ r.nValid = 0 <=> state'[c].status = "failed"]_vars

\* a response that is there but is not a valid script
MalformedScript(r) == r.kind \notin {"error", "object", "fenced"}

\* C33: generate_script re-prompts once when the first response is not a
\* valid script and never a second time; when the re-prompt response is
\* malformed too, the script stage ends with status failed and the stored
\* record has no script.
C33_ScriptRepromptOnce ==
    [][\A c \in Callers :
          /\ \A r \in ScriptResponses :
                (MalformedScript(r) /\ GenerateScript(c, r))
                    => pc'[c] = "generate_script_fallback"
          /\ pc[c] = "generate_script_fallback" =>
                \/ pc'[c] = "generate_script_fallback"
                \/ log'[c][1] = [agent |-> "scriptwriter",
                                 raised |-> state'[c].status = "failed",
                                 requests |-> 2]
          /\ \A r \in ScriptResponses :
                (MalformedScript(r) /\ GenerateScriptFallback(c, r))
                    => /\ pc'[c] = "returned"
                       /\ state'[c].status = "failed"
                       /\ store'[op[c].workflow_id].status = "failed"
                       /\ OrElse(store'[op[c].workflow_id].script, EmptyDict)
                              = EmptyDict]_vars

\* the acquire() calls of a task that have returned
AcquiresDone(t) == {i \in 1..Len(hist[t]) : hist[t][i].end # NoEnd}

\* C34: every remote request of a client, the request to the second Azure
\* endpoint included, is preceded by its own acquire(): a call has never sent
\* more requests than its acquire() calls have recorded timestamps.
C34_AcquirePerRequest ==
    \A t \in Tasks : Len(tries[t]) <= Cardinality(AcquiresDone(t))

\* C35: in a video that was assembled, every image is shown for the duration
\* of the segment whose prompt produced it (scaled to the audio like every
\* other), also when the requests of other segments failed.
C35_ImageShownForItsSegment ==
    [][\A c \in Callers :
          (/\ pc[c] = "assemble_video"
           /\ pc'[c] = "returned"
           /\ state'[c].status = "completed")
              => \A total \in AudioDurations :
                    LET durations == ImageDurations(state[c])
                        clips == create_video_from_images(state[c].image_paths,
                                                          durations, total)
                    IN  /\ Len(clips) = Len(state[c].image_paths)
                        /\ \A k \in DOMAIN clips :
                              clips[k].duration =
                                  Scaled(durations[clips[k].image], durations, total)]_vars

\* C36: the created_at of a persisted record is the one start wrote first:
\* every later version of the record has the same created_at, and its
\* updated_at is not earlier than before.
C36_CreatedAtFixed ==
    [][\A id \in Ids :
          (files[id].kind = "json" /\ files'[id].kind = "json")
              => /\ files'[id].doc.created_at = files[id].doc.created_at
                 /\ ~PathLess(files'[id].doc.updated_at, files[id].doc.updated_at)]_vars

\* C37: in every persisted record, whatever start and select calls led to
\* it, status completed goes with an empty error_message: a run that completes
\* after a failed one does not keep the message of the failure.
C37_CompletedHasNoError ==
    \A id \in Ids :
        (Stored(id) /\ store[id].status = "completed")
            => OrElse(store[id].error_message, "") = ""

\* C38: start never overwrites: a start call that returns, with or without
\* an id given by the caller, leaves every record that existed unchanged and
\* adds one record under an id that had none.
C38_StartAddsOneRecord ==
    [][\A c \in Callers :
          (op[c].name = "start" /\ pc[c] # "returned" /\ pc'[c] = "returned")
              => /\ ~Stored(op[c].workflow_id)
                 /\ store'[op[c].workflow_id] # NoFile
                 /\ \A id \in Ids \ {op[c].workflow_id} : store'[id] = store[id]]_vars

\* C39: when every collaborator call eventually returns or raises, a select
\* call on a stored id eventually returns, and the record it returns has
\* status completed or failed, never in_progress or waiting_for_selection.
C39_SelectReturnsFinal ==
    \A c \in Callers :
        /\ (op[c].name = "select" /\ pc[c] \in StagePcs) ~> Returned(c, "select")
        /\ [](Returned(c, "select") => state[c].status \in {"completed", "failed"})

C39_Witness ==
    \E c \in Callers :
        /\ Returned(c, "select")
        /\ Len(log[c]) = 3
        /\ log[c][3].agent = "video_assembler"
        /\ state[c].status = "completed"
        /\ store[op[c].workflow_id].status = "completed"

\* C40: after every acquire() that has returned, whatever the interleaving
\* of the tasks, the timestamps in the limiter's queue are in non-decreasing
\* order and there are at most max_requests of them.
C40_QueueSortedAndBounded ==
    /\ \A i, j \in 1..Len(request_times) :
          i < j => request_times[i] <= request_times[j]
    /\ Len(request_times) <= config.max_requests

====
